---- MODULE Spec2Model ----
(***************************************************************************)
(* Model of the benchmark client of src/phe/src/paillier/client.py: the    *)
(* run loop (2 modes x nr_ops iterations), the inline frame read loop, the *)
(* decoding / verification / tally step, the socket-error handler and the  *)
(* final plot / terminate transition.                                      *)
(*                                                                         *)
(* Byte strings are sequences of one-symbol strings.  JSON documents are   *)
(* scale models: one token per syntactic item, so that len(), framing and  *)
(* chunked delivery act on real sequences.  The peer (server) and the      *)
(* socket are the environment.                                             *)
(***************************************************************************)
EXTENDS Integers, Sequences, FiniteSets, TLC

\* ------------------------------------------------------------------ bounds
\* largest value of --nr-ops explored
MaxOps == 2
\* operands are drawn from 0..MaxOperand (stand-in for uniform(0.0, 100.0))
MaxOperand == 1
\* longest payload of the byte-level frames offered to the read loop
MaxPayload == 10

\* ------------------------------------------------------- program constants
\* sock.recv(4096)
RecvBufSize == 4096
\* exit status of sys.exit(1) and of an uncaught exception
ExitFailure == 1

\* operations = ['x*', '+', '+*']
operations == <<"x*", "+", "+*">>

\* ------------------------------------------------------------ byte strings
CR == "CR"
LF == "LF"
CRLF == <<CR, LF>>
SP == " "

Digit == <<"0", "1", "2", "3", "4", "5", "6", "7", "8", "9">>

IsDigit(c) == \E d \in 1..10 : Digit[d] = c

DigitVal(c) == (CHOOSE d \in 1..10 : Digit[d] = c) - 1

Min(a, b) == IF a < b THEN a ELSE b

\* str(n) for a non-negative integer
RECURSIVE Str(_)
Str(n) == IF n < 10 THEN <<Digit[n + 1]>>
          ELSE Str(n \div 10) \o <<Digit[(n % 10) + 1]>>

\* value of a non-empty run of decimal digits
RECURSIVE DigitsVal(_)
DigitsVal(s) == IF Len(s) = 0 THEN 0
                ELSE 10 * DigitsVal(SubSeq(s, 1, Len(s) - 1)) + DigitVal(s[Len(s)])

\* s.strip(): drop leading and trailing blanks
RECURSIVE Strip(_)
Strip(s) == IF Len(s) > 0 /\ s[1] = SP THEN Strip(Tail(s))
            ELSE IF Len(s) > 0 /\ s[Len(s)] = SP THEN Strip(SubSeq(s, 1, Len(s) - 1))
            ELSE s

\* int(s): blanks are stripped, one optional sign, then at least one digit;
\* anything else raises ValueError (ok = FALSE)
PyInt(s) ==
    LET t == Strip(s)
        signed == Len(t) > 0 /\ t[1] \in {"-", "+"}
        digits == IF signed THEN Tail(t) ELSE t
        wellformed == Len(digits) > 0 /\ \A k \in 1..Len(digits) : IsDigit(digits[k])
    IN  IF ~wellformed THEN [ok |-> FALSE, val |-> 0]
        ELSE [ok |-> TRUE,
              val |-> IF signed /\ t[1] = "-" THEN 0 - DigitsVal(digits)
                      ELSE DigitsVal(digits)]

\* index of the first CR immediately followed by LF, 0 when there is none
\* ('\r\n' in s, and the split point of s.split('\r\n', 1))
FirstCRLF(s) ==
    LET hits == {k \in 1..(Len(s) - 1) : s[k] = CR /\ s[k + 1] = LF}
    IN  IF hits = {} THEN 0 ELSE CHOOSE k \in hits : \A h \in hits : k <= h

HasCRLF(s) == FirstCRLF(s) > 0

\* s.split('\r\n', 1)[0]
BeforeCRLF(s) == SubSeq(s, 1, FirstCRLF(s) - 1)

\* s.split('\r\n', 1)[1]
AfterCRLF(s) == SubSeq(s, FirstCRLF(s) + 2, Len(s))

\* variant: the advertised length counts the delimiter too
WriteFrameCountsDelimiter(body) == Str(Len(body) + 2) \o CRLF \o body

\* str(body_len) + '\r\n' + body
WriteFrame(body) == Str(Len(body)) \o CRLF \o body

\* ------------------------------------------------------ Paillier capability
\* paillier.generate_paillier_keypair(): the private key is the pair of
\* primes p, q; the public key is the modulus n = p * q and the base
\* g = n + 1.  Both are made once, when the module is loaded.
PrivateKeyP == 3
PrivateKeyQ == 5
private_key == [p |-> PrivateKeyP, q |-> PrivateKeyQ]

PublicKeyN == PrivateKeyP * PrivateKeyQ
PublicKeyG == PublicKeyN + 1

\* variant: the factors of n travel with the public key
public_key_with_factors ==
    [g |-> PublicKeyG, n |-> PublicKeyN, p |-> PrivateKeyP, q |-> PrivateKeyQ]

public_key == [g |-> PublicKeyG, n |-> PublicKeyN]

\* public_key.encrypt(x): an opaque ciphertext integer and a fixed-point
\* exponent
Encrypt(x) == [ciphertext |-> 2 * x + 1, exponent |-> 0]

\* private_key.decrypt(EncryptedNumber(public_key, ciphertext, exponent))
Decrypt(ciphertext, exponent) == (ciphertext - 1) \div 2

\* ------------------------------------------------------------- JSON (model)
\* wire form of one operand or result: a plaintext decimal string, or a
\* [ciphertext string, exponent] pair
StrOperand(x) == [kind |-> "str", str |-> Str(x)]
PairOperand(e) == [kind |-> "pair", ciphertext |-> Str(e.ciphertext), exponent |-> e.exponent]

OperandTokens(o) ==
    IF o.kind = "pair" THEN <<"[">> \o o.ciphertext \o <<",">> \o Str(o.exponent) \o <<"]">>
    ELSE o.str

\* json.dumps(message) for the three messages the client builds
JsonDumps(message) ==
    IF message.type = "request"
    THEN <<"{", message.type, message.mode>>
         \o Str(message.public_key.g) \o <<",">> \o Str(message.public_key.n)
         \o <<message.operation>>
         \o OperandTokens(message.operand_1) \o <<",">> \o OperandTokens(message.operand_2)
         \o <<"}">>
    ELSE <<"{", message.type, message.mode, "}">>

\* the response document a server writes: {operation, result}
ResponseDoc(operation, result) == <<"{", operation>> \o OperandTokens(result) \o <<"}">>

AllDigits(s) == Len(s) > 0 /\ \A k \in 1..Len(s) : IsDigit(s[k])

\* json.loads(s) of a response document; blanks around the document are
\* accepted, anything else after it is "Extra data" (ValueError)
JsonLoads(s) ==
    LET t == Strip(s)
        framed == Len(t) >= 4 /\ t[1] = "{" /\ t[Len(t)] = "}"
        inner == SubSeq(t, 3, Len(t) - 1)
        commas == {k \in 1..Len(inner) : inner[k] = ","}
        k == CHOOSE c \in commas : TRUE
        ispair == /\ Len(inner) >= 5
                  /\ inner[1] = "["
                  /\ inner[Len(inner)] = "]"
                  /\ Cardinality(commas) = 1
                  /\ AllDigits(SubSeq(inner, 2, k - 1))
                  /\ AllDigits(SubSeq(inner, k + 1, Len(inner) - 1))
    IN  IF ~framed THEN [ok |-> FALSE]
        ELSE IF AllDigits(inner)
        THEN [ok |-> TRUE, operation |-> t[2], result |-> [kind |-> "str", str |-> inner]]
        ELSE IF ispair
        THEN [ok |-> TRUE, operation |-> t[2],
              result |-> [kind |-> "pair",
                          ciphertext |-> SubSeq(inner, 2, k - 1),
                          exponent |-> DigitsVal(SubSeq(inner, k + 1, Len(inner) - 1))]]
        ELSE [ok |-> FALSE]

\* ------------------------------------------------------------ request side
\* variant: the operands are added whatever the operation
get_expected_result_sum(operand_1, operand_2, operation) == operand_1 + operand_2

get_expected_result(operand_1, operand_2, operation) ==
    IF operation = "x*" THEN operand_1 * operand_2
    ELSE operand_1 + operand_2

\* message['operand_1'] for a mode
EncodeOperand1(mode, operand_1) ==
    IF mode = "encrypted" THEN PairOperand(Encrypt(operand_1))
    ELSE StrOperand(operand_1)

\* variant: operand 2 is encrypted for every kind of addition
EncodeOperand2AnyAddition(mode, operation, operand_2) ==
    IF mode = "encrypted"
    THEN IF operation # "x*" THEN PairOperand(Encrypt(operand_2))
         ELSE StrOperand(operand_2)
    ELSE StrOperand(operand_2)

\* message['operand_2'] for a mode and an operation
EncodeOperand2(mode, operation, operand_2) ==
    IF mode = "encrypted"
    THEN IF operation = "+" THEN PairOperand(Encrypt(operand_2))
         ELSE StrOperand(operand_2)
    ELSE StrOperand(operand_2)

\* number of public_key.encrypt calls (timing samples) of one request
EncryptCalls(mode, operation) ==
    IF mode = "encrypted" THEN (IF operation = "+" THEN 2 ELSE 1) ELSE 0

generate_random_request(mode, operation, operand_1, operand_2) ==
    [operand_1 |-> operand_1,
     operand_2 |-> operand_2,
     expected_result |-> get_expected_result(operand_1, operand_2, operation),
     message |-> [type |-> "request",
                  mode |-> mode,
                  public_key |-> public_key,
                  operation |-> operation,
                  operand_1 |-> EncodeOperand1(mode, operand_1),
                  operand_2 |-> EncodeOperand2(mode, operation, operand_2)]]

\* --------------------------------------------------------------- read loop
\* variant: the header and the delimiter are left out of the size
ResponseSizePayloadOnly(buffer) ==
    IF HasCRLF(buffer)
    THEN PyInt(BeforeCRLF(buffer)).val
    ELSE Len(buffer) + 1

\* response_size after one pass of the loop body, for a buffer whose header
\* (if complete) is a valid integer
ResponseSize(buffer) ==
    IF HasCRLF(buffer)
    THEN Len(BeforeCRLF(buffer)) + 2 + PyInt(BeforeCRLF(buffer)).val
    ELSE Len(buffer) + 1

\* int(response_size_str) raises ValueError
HeaderRaises(buffer) == HasCRLF(buffer) /\ ~PyInt(BeforeCRLF(buffer)).ok

\* ------------------------------------------------------------- environment
\* what the peer writes in answer to one request.  A server that follows
\* the protocol answers with one response frame that names the operation of
\* the request; nothing obliges it to compute the right result.
WireResult(mode, v) ==
    IF mode = "encrypted" THEN PairOperand(Encrypt(v)) ELSE StrOperand(v)

ResponseFrames(mode, operation, expected) ==
    {WriteFrame(ResponseDoc(operation, WireResult(mode, v))) :
        v \in {expected, expected + 1}}

\* operations a peer may name in a response: the known ones and another one
EchoOperations == {operations[k] : k \in 1..Len(operations)} \cup {"/"}

\* payloads of n bytes 'x' in which the bytes at k, k+1 are replaced by a, b
Patched(n, k, a, b) ==
    [j \in 1..n |-> IF j = k THEN a ELSE IF j = k + 1 THEN b ELSE "x"]

\* plain payloads of every length, and short and longest payloads with CR LF,
\* a lone CR or a lone LF at their start, middle or end
RawPayloads ==
    {Patched(n, 0, "x", "x") : n \in 0..MaxPayload}
    \cup UNION {{Patched(n, k, ab[1], ab[2]) :
                    k \in {1, n \div 2, n - 1},
                    ab \in {<<CR, LF>>, <<CR, "x">>, <<LF, "x">>}} :
                n \in {2, 3, MaxPayload}}

\* arbitrary byte streams: well-formed frames of arbitrary payloads, response
\* frames naming any operation with the right or a wrong result, frames
\* followed by surplus bytes, malformed length headers, truncated frames
ByteStreams(mode, operation, expected) ==
    LET doc == ResponseDoc(operation, WireResult(mode, expected))
        good == WriteFrame(doc)
    IN  {WriteFrame(p) : p \in RawPayloads}
        \cup {good, good \o <<SP>>, good \o <<"x">>, good \o <<"4", CR>>}
        \cup {WriteFrame(ResponseDoc(op, WireResult(mode, expected))) : op \in EchoOperations}
        \cup {WriteFrame(ResponseDoc(op, WireResult(mode, expected + 1))) : op \in EchoOperations}
        \cup {h \o CRLF \o doc :
                h \in {<<"-", "1">>, <<"-", "9">>, <<"x">>, <<>>, <<"-">>, <<SP>> \o Str(Len(doc))}}
        \cup {SubSeq(good, 1, Len(good) - 1), <<"4">>, <<"4", CR>>}

\* -------------------------------------------------------------------- state
VARIABLES
    pc,               \* position of the client in __main__
    nr_ops,           \* --nr-ops
    plot,             \* args.plot
    mode, i,          \* loop variables of the two for loops
    operand_1, operand_2, expected_result, body,
    response,         \* receive buffer of the current round
    response_size,
    correctness,      \* outcome -> counter vector (<<>> while the key is absent)
    processing_times, \* primitive -> list of samples
    err,              \* errno of the last socket.error handled
    sock,             \* "created", "connected" or "closed"
    exit_status,      \* -1 while the process runs
    wire,             \* bytes written by the peer and not yet returned by recv
    stream,           \* bytes that were readable or due when the last request was sent
    recv_eof,         \* a recv of the current round returned zero bytes
    pending,          \* numbers of the requests sent and not yet answered
    issued,           \* operation -> number of requests sent with it
    sent,             \* kind of message -> number of frames written
    last_sent,        \* the last frame written
    would_blocks,     \* number of would-block conditions raised
    profile           \* what the peer may write: "frames", "answers" or "bytes"

vars == <<pc, nr_ops, plot, mode, i, operand_1, operand_2, expected_result, body,
          response, response_size, correctness, processing_times, err, sock,
          exit_status, wire, stream, recv_eof, pending, issued, sent, last_sent,
          would_blocks, profile>>

request_vars == <<operand_1, operand_2, expected_result, body>>
buffer_vars == <<response, response_size, recv_eof>>
peer_vars == <<wire, stream, pending>>
log_vars == <<issued, sent, last_sent>>
process_vars == <<err, sock, exit_status>>
args_vars == <<nr_ops, plot, profile>>

Operations == {operations[k] : k \in 1..Len(operations)}

NoBody == [type |-> "none"]

InitWith(ops, profiles) ==
    /\ pc = "connect"
    /\ nr_ops \in ops
    /\ plot \in BOOLEAN
    /\ profile \in profiles
    /\ mode = "unset"
    /\ i = 0
    /\ operand_1 = 0
    /\ operand_2 = 0
    /\ expected_result = 0
    /\ body = NoBody
    /\ response = <<>>
    /\ response_size = 0
    /\ correctness = [o \in {"correct", "wrong"} |-> <<>>]
    /\ processing_times = [encrypt |-> <<>>, decrypt |-> <<>>]
    /\ err = "none"
    /\ sock = "created"
    /\ exit_status = -1
    /\ wire = <<>>
    /\ stream = <<>>
    /\ recv_eof = FALSE
    /\ pending = <<>>
    /\ issued = [op \in Operations |-> 0]
    /\ sent = [encrypted |-> 0, unencrypted |-> 0, plot |-> 0, terminate |-> 0]
    /\ last_sent = <<>>
    /\ would_blocks = 0

\* args.nr_ops when --nr-ops is not given
NoArg == "None"

\* nr_ops = 100 if not args.nr_ops else int(args.nr_ops)
DefaultNrOps == 100
ParseNrOps(arg) == IF arg = NoArg \/ arg = <<>> THEN DefaultNrOps ELSE PyInt(arg).val

Init == InitWith({ParseNrOps(Str(n)) : n \in 0..MaxOps}, {"frames"})

\* the read loop alone, fed with arbitrary byte streams
InitBytes == InitWith({1}, {"bytes"})

\* a peer that answers every request with one complete response frame
InitAnswered == InitWith({ParseNrOps(Str(n)) : n \in 0..MaxOps}, {"answers"})

\* ------------------------------------------------------------ control flow
\* variant: the inner loop runs while i <= nr_ops
NextIterationInclusive ==
    IF i + 1 <= nr_ops
    THEN pc' = "gen" /\ i' = i + 1 /\ mode' = mode
    ELSE IF mode = "encrypted"
    THEN pc' = "gen" /\ i' = 0 /\ mode' = "unencrypted"
    ELSE pc' = "final" /\ UNCHANGED <<mode, i>>

\* the next pass of `for mode in [...]: for i in xrange(nr_ops):`
NextIteration ==
    IF i + 1 < nr_ops
    THEN pc' = "gen" /\ i' = i + 1 /\ mode' = mode
    ELSE IF mode = "encrypted"
    THEN pc' = "gen" /\ i' = 0 /\ mode' = "unencrypted"
    ELSE pc' = "final" /\ UNCHANGED <<mode, i>>

\* an exception nobody catches: traceback, exit status 1; the descriptor is
\* released with the process
Uncaught ==
    /\ pc' = "crashed"
    /\ exit_status' = ExitFailure
    /\ sock' = "closed"

\* variant: every errno is taken for a would-block condition
IsWouldBlockAny(e) == TRUE

\* err == errno.EAGAIN or err == errno.EWOULDBLOCK
IsWouldBlock(e) == e \in {"EAGAIN", "EWOULDBLOCK"}

\* except socket.error, e: ...
ExceptSocketError(e) ==
    /\ err' = e
    /\ IF IsWouldBlock(e)
       THEN NextIteration /\ UNCHANGED <<sock, exit_status>>
       ELSE /\ sock' = "closed"
            /\ exit_status' = ExitFailure
            /\ pc' = "aborted"
            /\ UNCHANGED <<mode, i>>

\* an errno other than EAGAIN / EWOULDBLOCK
FatalErrnos == {"ECONNRESET"}

\* ---------------------------------------------------------------- actions
\* sock.connect(server_address), then the loops are entered
Connect ==
    /\ pc = "connect"
    /\ sock' = "connected"
    /\ IF nr_ops > 0
       THEN pc' = "gen" /\ mode' = "encrypted" /\ i' = 0
       ELSE pc' = "final" /\ mode' = "unencrypted" /\ i' = i
    /\ UNCHANGED <<request_vars, buffer_vars, peer_vars, log_vars, args_vars,
                   correctness, processing_times, err, exit_status, would_blocks>>

\* sock.connect raises: it is outside the try block
ConnectError ==
    /\ pc = "connect"
    /\ Uncaught
    /\ UNCHANGED <<request_vars, buffer_vars, peer_vars, log_vars, args_vars,
                   mode, i, correctness, processing_times, err, would_blocks>>

PeerWrites(m, operation, expected) ==
    IF profile = "frames"
    THEN ResponseFrames(m, operation, expected) \cup {<<>>}
    ELSE IF profile = "answers"
    THEN ResponseFrames(m, operation, expected)
    ELSE ByteStreams(m, operation, expected)

\* operand_1, operand_2, expected_result, body = generate_random_request(mode)
Generate(r, operation) ==
    /\ operand_1' = r.operand_1
    /\ operand_2' = r.operand_2
    /\ expected_result' = r.expected_result
    /\ body' = r.message
    /\ processing_times' =
         [processing_times EXCEPT
            !.encrypt = @ \o [k \in 1..EncryptCalls(mode, operation) |-> "t"]]

\* lines 167-176: a request is generated and written;
\* response = ''; response_size = 1.  The peer answers.
SendRequest ==
    /\ pc = "gen"
    /\ \E operation \in Operations, a \in 0..MaxOperand, b \in 0..MaxOperand :
         LET r == generate_random_request(mode, operation, a, b)
         IN  /\ Generate(r, operation)
             /\ last_sent' = WriteFrame(JsonDumps(r.message))
             /\ issued' = [issued EXCEPT ![operation] = @ + 1]
             /\ \E reply \in PeerWrites(mode, operation, r.expected_result) :
                  wire' = wire \o reply
    /\ sent' = [sent EXCEPT ![mode] = @ + 1]
    /\ pending' = Append(pending, sent.encrypted + sent.unencrypted + 1)
    /\ stream' = wire'
    /\ response' = <<>>
    /\ response_size' = 1
    /\ recv_eof' = FALSE
    /\ pc' = "recv"
    /\ UNCHANGED <<args_vars, process_vars, mode, i, correctness, would_blocks>>

\* lines 167-173: a request is generated and sock.sendall raises
SendRequestError ==
    /\ pc = "gen"
    /\ \E operation \in Operations, a \in 0..MaxOperand, b \in 0..MaxOperand :
         Generate(generate_random_request(mode, operation, a, b), operation)
    /\ \E e \in FatalErrnos : ExceptSocketError(e)
    /\ UNCHANGED <<buffer_vars, peer_vars, log_vars, args_vars, correctness,
                   would_blocks>>

\* variant: the loop is left after the first recv, whatever has arrived
LoopBodyOnce(chunk) ==
    LET buffer == response \o chunk
    IN  /\ response' = buffer
        /\ IF HeaderRaises(buffer)
           THEN Uncaught /\ UNCHANGED response_size
           ELSE /\ response_size' = ResponseSize(buffer)
                /\ pc' = "decode"
                /\ UNCHANGED <<sock, exit_status>>

\* one pass of the while loop in which recv returned chunk
LoopBody(chunk) ==
    LET buffer == response \o chunk
    IN  /\ response' = buffer
        /\ IF HeaderRaises(buffer)
           THEN Uncaught /\ UNCHANGED response_size
           ELSE /\ response_size' = ResponseSize(buffer)
                /\ pc' = IF Len(buffer) < ResponseSize(buffer) THEN "recv" ELSE "decode"
                /\ UNCHANGED <<sock, exit_status>>

\* response += sock.recv(4096): some of the readable bytes arrive
Recv ==
    /\ pc = "recv"
    /\ wire # <<>>
    /\ \E n \in 1..Min(Len(wire), RecvBufSize) :
         /\ LoopBody(SubSeq(wire, 1, n))
         /\ wire' = SubSeq(wire, n + 1, Len(wire))
    /\ UNCHANGED <<request_vars, log_vars, args_vars, mode, i, correctness,
                   processing_times, err, stream, recv_eof, pending, would_blocks>>

\* the peer has closed: recv returns the empty string
RecvEOF ==
    /\ pc = "recv"
    /\ wire = <<>>
    /\ LoopBody(<<>>)
    /\ recv_eof' = TRUE
    /\ UNCHANGED <<request_vars, log_vars, args_vars, mode, i, correctness,
                   processing_times, err, peer_vars, would_blocks>>

\* sock.recv raises an error other than would-block
RecvError ==
    /\ pc = "recv"
    /\ \E e \in FatalErrnos : ExceptSocketError(e)
    /\ UNCHANGED <<request_vars, buffer_vars, peer_vars, log_vars, args_vars,
                   correctness, processing_times, would_blocks>>

\* sock.recv raises EAGAIN: nothing is readable on a non-blocking socket
RecvWouldBlock ==
    /\ pc = "recv"
    /\ wire = <<>>
    /\ ExceptSocketError("EAGAIN")
    /\ would_blocks' = would_blocks + 1
    /\ UNCHANGED <<request_vars, buffer_vars, peer_vars, log_vars, args_vars,
                   correctness, processing_times>>

\* ------------------------------------------------- decode, verify, record
\* operations.index(operation) (1-based here)
Index(operation) == CHOOSE k \in 1..Len(operations) : operations[k] = operation

\* the numeric result of a decoded document: decryption of the pair in mode
\* 'encrypted', float(result) otherwise
Result(m, doc) ==
    IF m = "encrypted"
    THEN Decrypt(DigitsVal(doc.result.ciphertext), doc.result.exponent)
    ELSE DigitsVal(doc.result.str)

\* the key of correctness a round is recorded under
Outcome(result, expected) == IF result # expected THEN "wrong" ELSE "correct"

\* if outcome not in correctness: correctness[outcome] = [0, 0, 0, 0, 0, 0]
WithKey(c, outcome) ==
    IF c[outcome] = <<>> THEN [c EXCEPT ![outcome] = <<0, 0, 0, 0, 0, 0>>] ELSE c

\* variant: the round is recorded under the operation of the request
RecordUnderRequest(c, outcome, operation) ==
    [WithKey(c, outcome) EXCEPT ![outcome][Index(body.operation)] = @ + 1]

\* correctness[outcome][operations.index(operation)] += 1
Record(c, outcome, operation) ==
    [WithKey(c, outcome) EXCEPT ![outcome][Index(operation)] = @ + 1]

\* lines 193-224: json.loads, decryption or float(), comparison, tally
Decode ==
    /\ pc = "decode"
    /\ LET doc == JsonLoads(AfterCRLF(response))
           typed == doc.ok /\ doc.result.kind = (IF mode = "encrypted" THEN "pair" ELSE "str")
           outcome == Outcome(Result(mode, doc), expected_result)
       IN  IF ~typed
           THEN \* ValueError of json.loads, TypeError / IndexError of the conversion
                /\ Uncaught
                /\ UNCHANGED <<response, correctness, processing_times, pending, mode, i>>
           ELSE /\ response' = <<>>   \* the buffer is dropped: response is rebound to the document
                /\ processing_times' =
                     IF mode = "encrypted"
                     THEN [processing_times EXCEPT !.decrypt = Append(@, "t")]
                     ELSE processing_times
                /\ IF doc.operation \notin Operations
                   THEN \* ValueError of operations.index, after the key was created
                        /\ correctness' = WithKey(correctness, outcome)
                        /\ Uncaught
                        /\ UNCHANGED <<pending, mode, i>>
                   ELSE /\ correctness' = Record(correctness, outcome, doc.operation)
                        /\ pending' = Tail(pending)
                        /\ NextIteration
                        /\ UNCHANGED <<sock, exit_status>>
    /\ UNCHANGED <<request_vars, log_vars, args_vars, response_size, recv_eof,
                   wire, stream, err, would_blocks>>

\* --------------------------------------------------------- final transition
\* print_graph: with no sample at all n stays 0.0 and math.log10(n) raises
PrintGraphCanReturn ==
    processing_times.encrypt # <<>> \/ processing_times.decrypt # <<>>

\* log_n = int(math.log10(n)): 0 for samples between 0.1 s and 10 s, negative
\* for the shorter times of a fast machine
LogScales == {0, -2}

\* data[k] = [(v / math.pow(10, log_n)) for v in data[k]]: the list of
\* processing_times is replaced by the rescaled one; dividing by 10^0 gives
\* the same values
Rescale(samples, log_n) ==
    IF log_n = 0 THEN samples ELSE [k \in 1..Len(samples) |-> "t/10^log_n"]

PrintGraphRescales(log_n) ==
    processing_times' = [encrypt |-> Rescale(processing_times.encrypt, log_n),
                         decrypt |-> Rescale(processing_times.decrypt, log_n)]

FinalMessage(type) == [type |-> type, mode |-> mode]

\* variant: the test looks at the first mode of the run
PlotRequestedFirstMode == mode = "encrypted" /\ plot

\* if mode == 'unencrypted' and args.plot
PlotRequested == mode = "unencrypted" /\ plot

\* if mode == 'unencrypted' and args.plot: print_graph(...); send 'plot'
SendPlot ==
    /\ pc = "final"
    /\ PlotRequested
    /\ PrintGraphCanReturn
    /\ \E log_n \in LogScales : PrintGraphRescales(log_n)
    /\ body' = FinalMessage("plot")
    /\ last_sent' = WriteFrame(JsonDumps(body'))
    /\ sent' = [sent EXCEPT !.plot = @ + 1]
    /\ pc' = "close"
    /\ UNCHANGED <<operand_1, operand_2, expected_result, buffer_vars, peer_vars,
                   args_vars, process_vars, mode, i, correctness, issued,
                   would_blocks>>

\* print_graph raises: with no samples at line 104, before the lists are
\* touched; otherwise when the figure is drawn or saved, after line 107
PrintGraphError ==
    /\ pc = "final"
    /\ PlotRequested
    /\ IF PrintGraphCanReturn
       THEN \E log_n \in LogScales : PrintGraphRescales(log_n)
       ELSE UNCHANGED processing_times
    /\ Uncaught
    /\ UNCHANGED <<request_vars, buffer_vars, peer_vars, log_vars, args_vars,
                   mode, i, correctness, err, would_blocks>>

\* print_graph on a run without any sample: math.log10(0.0) raises
PrintGraphNoSamples ==
    /\ ~PrintGraphCanReturn
    /\ PrintGraphError

\* else: send 'terminate'
SendTerminate ==
    /\ pc = "final"
    /\ ~PlotRequested
    /\ body' = FinalMessage("terminate")
    /\ last_sent' = WriteFrame(JsonDumps(body'))
    /\ sent' = [sent EXCEPT !.terminate = @ + 1]
    /\ pc' = "close"
    /\ UNCHANGED <<operand_1, operand_2, expected_result, buffer_vars, peer_vars,
                   args_vars, process_vars, mode, i, correctness, processing_times,
                   issued, would_blocks>>

\* the final sock.sendall raises: it is outside the try block
FinalSendAllError ==
    /\ pc = "final"
    /\ Uncaught
    /\ UNCHANGED <<request_vars, buffer_vars, peer_vars, log_vars, args_vars,
                   mode, i, correctness, processing_times, err, would_blocks>>

\* sock.close(), end of the script
Close ==
    /\ pc = "close"
    /\ sock' = "closed"
    /\ exit_status' = 0
    /\ pc' = "done"
    /\ UNCHANGED <<request_vars, buffer_vars, peer_vars, log_vars, args_vars,
                   mode, i, correctness, processing_times, err, would_blocks>>

\* ------------------------------------------------------------ specifications
Next ==
    \/ Connect
    \/ ConnectError
    \/ SendRequest
    \/ SendRequestError
    \/ Recv
    \/ RecvEOF
    \/ RecvError
    \/ Decode
    \/ SendPlot
    \/ PrintGraphError
    \/ SendTerminate
    \/ FinalSendAllError
    \/ Close

\* the socket as the script leaves it (blocking), and a server that follows
\* the protocol, computes right or wrong results, may close or reset
Spec == Init /\ [][Next]_vars

\* the same run over a socket on which recv may signal would-block
NextNB ==
    \/ Next
    \/ RecvWouldBlock

SpecNB == Init /\ [][NextNB]_vars

\* one iteration per mode, the peer writing arbitrary byte streams
SpecBytes == InitBytes /\ [][Next]_vars

\* the session in which every request is answered by one complete response
\* frame and no socket operation fails; the client keeps running and recv
\* returns whenever bytes are readable
NextAnswered ==
    \/ Connect
    \/ SendRequest
    \/ Recv
    \/ Decode
    \/ SendPlot
    \/ PrintGraphNoSamples
    \/ SendTerminate
    \/ Close

SpecAnswered == InitAnswered /\ [][NextAnswered]_vars /\ WF_vars(NextAnswered)

\* ------------------------------------------------------------ properties
\* s is exactly one frame: <decimal length of P> CR LF P
IsSingleFrame(s) == HasCRLF(s) /\ BeforeCRLF(s) = Str(Len(AfterCRLF(s)))

\* the buffer holds a header and at least the advertised number of bytes
FrameComplete(buffer) ==
    /\ HasCRLF(buffer)
    /\ PyInt(BeforeCRLF(buffer)).ok
    /\ Len(AfterCRLF(buffer)) >= PyInt(BeforeCRLF(buffer)).val

Aborted == pc \in {"aborted", "crashed"}

\* C1: framing round trip.  When the peer's bytes for a round are exactly one
\* frame <decimal length of P> CR LF P, then however recv cuts them into
\* non-empty chunks the header never raises, the client is out of the read
\* loop once the last byte was returned, and it leaves the loop with a buffer
\* whose part after the first CR LF is P.
C1_FramingRoundTrip ==
    IsSingleFrame(stream) =>
        /\ ~HeaderRaises(response)
        /\ (pc = "recv" => wire # <<>> /\ response \o wire = stream)
        /\ (pc = "decode" => AfterCRLF(response) = AfterCRLF(stream))

\* a frame with a two-digit header whose payload itself contains CR LF has
\* been read to its end
C1_Witness ==
    /\ pc = "decode"
    /\ IsSingleFrame(stream)
    /\ Len(BeforeCRLF(stream)) = 2
    /\ HasCRLF(AfterCRLF(stream))

\* C2: the read does not go past the advertised length: the payload handed
\* to the decoder is exactly the advertised number of bytes after CR LF.
C2_NoReadPastLength ==
    (pc = "decode" /\ PyInt(BeforeCRLF(response)).val >= 0)
        => Len(AfterCRLF(response)) = PyInt(BeforeCRLF(response)).val

\* C3: once recv has returned zero bytes before the frame was complete, the
\* run is aborted with a non-zero exit status.
C3_ClosedConnectionIsFatal ==
    recv_eof => (Aborted /\ exit_status # 0)

\* C4: the read loop is never left normally with a length header that is
\* not a non-negative decimal number.
C4_BadHeaderRejected ==
    pc = "decode" =>
        /\ PyInt(BeforeCRLF(response)).ok
        /\ PyInt(BeforeCRLF(response)).val >= 0

\* number of the request the client is working on
RequestNumber == sent.encrypted + sent.unencrypted

Count(outcome, op) ==
    IF correctness[outcome] = <<>> THEN 0 ELSE correctness[outcome][Index(op)]

\* correct[op] + wrong[op]
Tallied(op) == Count("correct", op) + Count("wrong", op)

RECURSIVE SumOver(_, _)
SumOver(f, S) ==
    IF S = {} THEN 0
    ELSE LET x == CHOOSE y \in S : TRUE IN f[x] + SumOver(f, S \ {x})

\* number of rounds recorded so far
TalliedTotal == SumOver([op \in Operations |-> Tallied(op)], Operations)

FinalsSent == sent.plot + sent.terminate

\* C5: strict request/response ordering.  At most one request is in flight;
\* a request is written only when every earlier one has been answered; the
\* read loop is left only with a complete response frame in the buffer, and
\* the response being decoded answers the request of the current iteration.
C5_OneInFlight ==
    /\ Len(pending) <= 1
    /\ (pc = "gen" => pending = <<>>)
    /\ (pc = "decode" => /\ FrameComplete(response)
                         /\ pending = <<RequestNumber>>)

\* the second request is about to be written, the first one answered
C5_Witness ==
    /\ pc = "gen"
    /\ RequestNumber = 1
    /\ TalliedTotal = 1

\* C6: at the end of a full run correct[op] + wrong[op] is the number of
\* requests issued with op, for every operation.
C6_TallyPerOperation ==
    pc = "done" => \A op \in Operations : Tallied(op) = issued[op]

\* C7: a would-block condition leaves the client in the pending read: the
\* iteration is not consumed, nothing is generated or sent, the buffer is
\* kept; and a complete run has recorded N rounds per mode.
C7_WouldBlockRetries ==
    /\ [][would_blocks' # would_blocks =>
            /\ pc' = "recv"
            /\ <<mode, i>>' = <<mode, i>>
            /\ response' = response
            /\ request_vars' = request_vars
            /\ sent' = sent]_vars
    /\ [](pc = "done" => TalliedTotal = 2 * nr_ops)

\* a step in which a socket operation raises an error other than would-block
FatalSocketError ==
    \/ err' # err /\ err' \in FatalErrnos
    \/ pc = "connect" /\ pc' = "crashed"
    \/ pc = "final" /\ ~PlotRequested /\ pc' = "crashed"

\* C8: a transport error other than would-block ends the run: connection
\* closed, exit status non-zero, no frame written and no tally update by the
\* step or after it.
C8_FatalErrorAborts ==
    /\ [][FatalSocketError =>
            /\ Aborted'
            /\ sock' = "closed"
            /\ exit_status' = ExitFailure
            /\ <<sent, last_sent, correctness>>' = <<sent, last_sent, correctness>>]_vars
    /\ [][Aborted => vars' = vars]_vars
    /\ [](err \in FatalErrnos => pc = "aborted")
    /\ [](Aborted => sock = "closed" /\ exit_status = ExitFailure)

\* recv failed in the middle of a response: the run is over, round unrecorded
C8_Witness ==
    /\ pc = "aborted"
    /\ err \in FatalErrnos
    /\ response # <<>>
    /\ mode = "unencrypted"
    /\ TalliedTotal = 1

\* C9: the final transition.  Exactly one final message is written, after
\* all 2 * nr_ops rounds were sent and recorded; it is 'plot' exactly when
\* plotting was requested; no request follows it; the socket is closed after
\* it and the run ends with status 0.
C9_FinalTransition ==
    /\ FinalsSent <= 1
    /\ (FinalsSent = 1 =>
          /\ pc \in {"close", "done"}
          /\ mode = "unencrypted"
          /\ sent.encrypted = nr_ops /\ sent.unencrypted = nr_ops
          /\ TalliedTotal = 2 * nr_ops
          /\ pending = <<>>
          /\ (sent.plot = 1 <=> plot)
          /\ body.type = (IF plot THEN "plot" ELSE "terminate")
          /\ last_sent = WriteFrame(JsonDumps(body)))
    /\ (pc = "close" => FinalsSent = 1 /\ sock = "connected")
    /\ (pc = "done" => FinalsSent = 1 /\ sock = "closed" /\ exit_status = 0)

\* a run with rounds has ended with 'plot'
C9_Witness ==
    /\ pc = "done"
    /\ nr_ops = MaxOps
    /\ sent.plot = 1

\* C10: operand encoding of the request on the wire.
C10_OperandEncoding ==
    pc \in {"recv", "decode"} =>
        /\ body.type = "request"
        /\ body.mode = mode
        /\ last_sent = WriteFrame(JsonDumps(body))
        /\ IF mode = "encrypted"
           THEN /\ body.operand_1.kind = "pair"
                /\ (body.operand_2.kind = "pair" <=> body.operation = "+")
                /\ (body.operand_2.kind = "str" <=> body.operation \in {"x*", "+*"})
           ELSE /\ body.operand_1.kind = "str"
                /\ body.operand_2.kind = "str"

\* an encrypted-plus-plaintext request is on the wire
C10_Witness ==
    /\ pc = "recv"
    /\ mode = "encrypted"
    /\ body.operation = "+*"
    /\ body.operand_1.kind = "pair"
    /\ body.operand_2.kind = "str"

\* C11: every frame the client writes is a decimal length, CR LF, and exactly
\* that many payload bytes with nothing after them; right after a write the
\* payload is the serialization of the message just built.
C11_FrameWritten ==
    last_sent # <<>> =>
        /\ HasCRLF(last_sent)
        /\ AllDigits(BeforeCRLF(last_sent))
        /\ DigitsVal(BeforeCRLF(last_sent)) = Len(AfterCRLF(last_sent))
        /\ (pc \in {"recv", "decode", "close", "done"} =>
              /\ body.type \in {"request", "plot", "terminate"}
              /\ AfterCRLF(last_sent) = JsonDumps(body)
              /\ Len(last_sent) = Len(BeforeCRLF(last_sent)) + 2 + Len(JsonDumps(body)))

\* the run wrote its requests and then the frame of the 'plot' message
C11_Witness ==
    /\ pc = "close"
    /\ sent.encrypted > 0
    /\ body.type = "plot"
    /\ last_sent = <<"4", CR, LF, "{", "plot", "unencrypted", "}">>

\* C12: run loop shape.  At most nr_ops requests are sent per mode and a
\* finished run has sent exactly nr_ops of each (100 when --nr-ops is not
\* given); the request of a round carries the mode of the outer loop; an
\* 'unencrypted' request is sent only when all nr_ops 'encrypted' rounds were
\* sent and recorded; the mode never goes back to 'encrypted'.
C12_RunLoopShape ==
    /\ ParseNrOps(NoArg) = 100
    /\ [](/\ sent.encrypted <= nr_ops
          /\ sent.unencrypted <= nr_ops
          /\ (pc \in {"recv", "decode"} => body.type = "request" /\ body.mode = mode)
          /\ (sent.unencrypted > 0 =>
                /\ mode = "unencrypted"
                /\ sent.encrypted = nr_ops
                /\ TalliedTotal >= nr_ops + sent.unencrypted - 1)
          /\ (pc \in {"final", "close", "done"} =>
                sent.encrypted = nr_ops /\ sent.unencrypted = nr_ops))
    /\ [][/\ (mode = "unencrypted" => mode' = "unencrypted")
          /\ (sent'.encrypted # sent.encrypted =>
                /\ mode = "encrypted"
                /\ sent'.encrypted = sent.encrypted + 1
                /\ sent.unencrypted = 0)
          /\ (sent'.unencrypted # sent.unencrypted =>
                /\ mode = "unencrypted"
                /\ sent'.unencrypted = sent.unencrypted + 1)]_vars

\* the first 'unencrypted' request of the longest run is out
C12_Witness ==
    /\ pc = "recv"
    /\ nr_ops = MaxOps
    /\ sent.encrypted = MaxOps
    /\ sent.unencrypted = 1
    /\ body.mode = "unencrypted"

\* counter j of an outcome in a tally c (0 while the key is absent)
CountIn(c, outcome, j) == IF c[outcome] = <<>> THEN 0 ELSE c[outcome][j]

Counters == {"correct", "wrong"} \X (1..6)

\* a step that completes a round: the document was decoded and recorded
RoundCompletes == pc = "decode" /\ pc' \in {"gen", "final"}

\* C13: recording step.  A step that completes a round adds one to exactly
\* one counter: wrong[k] when the decoded result differs from the expected
\* one, correct[k] otherwise, k being the index of the operation echoed in
\* the response; the client then goes on to the next iteration in the same
\* way for either outcome.  No other step changes a counter.
C13_RecordingStep ==
    /\ [][RoundCompletes =>
            LET doc == JsonLoads(AfterCRLF(response))
                k == Index(doc.operation)
                o == IF Result(mode, doc) # expected_result THEN "wrong" ELSE "correct"
            IN  /\ doc.ok /\ doc.operation \in Operations
                /\ CountIn(correctness', o, k) = CountIn(correctness, o, k) + 1
                /\ \A c \in Counters \ {<<o, k>>} :
                      CountIn(correctness', c[1], c[2]) = CountIn(correctness, c[1], c[2])
                /\ <<sock, exit_status, err>>' = <<sock, exit_status, err>>
                /\ IF i + 1 < nr_ops
                   THEN <<pc, mode, i>>' = <<"gen", mode, i + 1>>
                   ELSE IF mode = "encrypted"
                   THEN <<pc, mode, i>>' = <<"gen", "unencrypted", 0>>
                   ELSE <<pc, mode, i>>' = <<"final", mode, i>>]_vars
    /\ [][~RoundCompletes =>
            \A c \in Counters :
                CountIn(correctness', c[1], c[2]) = CountIn(correctness, c[1], c[2])]_vars

\* a mismatch was recorded under the echoed operation, which is not the one
\* requested, and the run went on with the next mode
C13_Witness ==
    /\ pc = "gen"
    /\ mode = "unencrypted"
    /\ body.operation = "x*"
    /\ Count("wrong", "+") = 1
    /\ TalliedTotal = 1

\* C14: expected result.  While a request is the current message, the stored
\* expected result is operand_1 * operand_2 for 'x*' and operand_1 + operand_2
\* for '+' and '+*', operand_1, operand_2 and the operation being the ones
\* the request was built from.
C14_ExpectedResult ==
    body.type = "request" =>
        /\ body.operation \in Operations
        /\ body.operand_1 = EncodeOperand1(body.mode, operand_1)
        /\ body.operand_2 = EncodeOperand2(body.mode, body.operation, operand_2)
        /\ (body.operation = "x*" => expected_result = operand_1 * operand_2)
        /\ (body.operation \in {"+", "+*"} => expected_result = operand_1 + operand_2)

\* a scalar multiplication whose product differs from the sum is on the wire
C14_Witness ==
    /\ pc = "recv"
    /\ body.type = "request"
    /\ body.operation = "x*"
    /\ operand_1 = 1
    /\ operand_2 = 1
    /\ expected_result = 1

\* C15: liveness of the session.  When every request is answered by one
\* complete well-formed response frame and no socket error occurs, the run
\* reaches its end: all 2 * nr_ops rounds recorded, the final message written
\* and the socket closed.
C15_SessionEnds ==
    <>(/\ pc = "done"
       /\ TalliedTotal = 2 * nr_ops
       /\ FinalsSent = 1
       /\ sock = "closed")

\* number of encrypted operands of a message
PairOperands(message) ==
    (IF message.operand_1.kind = "pair" THEN 1 ELSE 0)
    + (IF message.operand_2.kind = "pair" THEN 1 ELSE 0)

\* list t extends list s
Extends(t, s) == Len(t) >= Len(s) /\ SubSeq(t, 1, Len(s)) = s

\* the lists of samples only grow: what was recorded stays as it was
SamplesAppendOnly ==
    [][/\ Extends(processing_times'.encrypt, processing_times.encrypt)
       /\ Extends(processing_times'.decrypt, processing_times.decrypt)]_vars

\* a step that builds a request adds one 'encrypt' sample per encrypted
\* operand of that request (one in mode 'encrypted', two when the operation
\* is '+', none in mode 'unencrypted'); a step that decodes a response in
\* mode 'encrypted' adds one 'decrypt' sample; no other step adds or removes
\* a sample
SamplesCounted ==
    /\ [][/\ Len(processing_times'.encrypt) - Len(processing_times.encrypt) =
                (IF pc = "gen"
                 THEN IF mode = "encrypted"
                      THEN (IF body'.operation = "+" THEN 2 ELSE 1)
                      ELSE 0
                 ELSE 0)
          /\ (pc = "gen" =>
                /\ body'.type = "request"
                /\ Len(processing_times'.encrypt) - Len(processing_times.encrypt)
                      = PairOperands(body'))
          /\ Len(processing_times'.decrypt) - Len(processing_times.decrypt) =
                (IF pc = "decode" /\ mode = "encrypted"
                       /\ JsonLoads(AfterCRLF(response)).ok
                 THEN 1 ELSE 0)]_vars
    /\ [](pc = "done" =>
            /\ Len(processing_times.decrypt) = nr_ops
            /\ Len(processing_times.encrypt) >= nr_ops
            /\ Len(processing_times.encrypt) <= 2 * nr_ops)

\* C16: timing samples are append-only and counted per primitive call, at
\* every point of a run.
C16_TimingSamples == SamplesAppendOnly /\ SamplesCounted

RequestFields == {"type", "mode", "public_key", "operation", "operand_1", "operand_2"}

\* C17: message vocabulary.  Every message the client builds and sends is a
\* 'request', a 'plot' or a 'terminate' message.  A request has exactly the
\* fields type, mode, public_key, operation, operand_1, operand_2, its
\* public_key has exactly g and n, the ones of the key pair of the run; a
\* plot or terminate message has exactly type and mode.  No field holds the
\* private key or one of its parts.
C17_MessageVocabulary ==
    body # NoBody =>
        /\ body.type \in {"request", "plot", "terminate"}
        /\ body.mode \in {"encrypted", "unencrypted"}
        /\ (body.type = "request" =>
              /\ DOMAIN body = RequestFields
              /\ DOMAIN body.public_key = {"g", "n"}
              /\ body.public_key.g = PublicKeyG
              /\ body.public_key.n = PublicKeyN
              /\ body.operation \in Operations
              /\ \A o \in {body.operand_1, body.operand_2} :
                    \/ o.kind = "str" /\ DOMAIN o = {"kind", "str"}
                    \/ o.kind = "pair" /\ DOMAIN o = {"kind", "ciphertext", "exponent"})
        /\ (body.type \in {"plot", "terminate"} => DOMAIN body = {"type", "mode"})
        /\ DOMAIN body \cap (DOMAIN private_key \cup {"private_key"}) = {}

\* requests of both modes were sent, then the 'terminate' message
C17_Witness ==
    /\ pc = "done"
    /\ sent.encrypted > 0
    /\ sent.unencrypted > 0
    /\ body = [type |-> "terminate", mode |-> "unencrypted"]

====
